---- MODULE Spec2Model ----
(***************************************************************************)
(* CTAP2 authenticatorGetAssertion message schema                          *)
(* (src/ctap2/get_assertion.rs): the Request, Response, HmacSecretInput    *)
(* and ExtensionsOutput structures, the indexed-map encoding their derive  *)
(* attributes select, and the ResponseBuilder.                             *)
(***************************************************************************)
EXTENDS Integers, Sequences, FiniteSets, TLC

(***************************************************************************)
(* Bounds of the model.                                                    *)
(***************************************************************************)
\* longest salt_enc a peer puts on the wire (one past the capacity)
MaxSaltLen == 81
\* number of Responses of one multi-credential result set
MaxResponses == 3

(***************************************************************************)
(* Values.  Option<T> is <<>> (None) or <<v>> (Some(v)).  A byte string is *)
(* len copies of the byte fill.                                            *)
(***************************************************************************)
None == <<>>
Some(v) == <<v>>
IsSome(o) == o # <<>>
Opt(S) == {None} \cup {Some(v) : v \in S}

Ok(v) == [ok |-> TRUE, val |-> v]
Err(e) == [ok |-> FALSE, val |-> e]

Fills == {0, 255}
BytesOf(n, b) == [len |-> n, fill |-> IF n = 0 THEN 0 ELSE b]

\* a value on the wire: CBOR null, or a data item
WNull == [null |-> TRUE, v |-> <<>>]
W(x) == [null |-> FALSE, v |-> x]

\* a field that is not a fixed-capacity byte buffer
NoCap == -1

(***************************************************************************)
(* The indexed-map codec (serde_indexed).  A field table lists the fields  *)
(* in declaration order: name, whether the type is Option<T> (option),     *)
(* whether it carries skip_serializing_if = "Option::is_none" (skip), and  *)
(* the capacity of a Bytes<N> field (cap).  A map on the wire is the       *)
(* sequence of its entries in the order they were written.                 *)
(***************************************************************************)
Field(n, o, s, c) == [name |-> n, option |-> o, skip |-> s, cap |-> c]

Names(fields) == {fields[i].name : i \in 1..Len(fields)}

IndexOf(fields, n) == CHOOSE i \in 1..Len(fields) : fields[i].name = n

SerializeValue(f, v) ==
    IF f.option
    THEN IF v = None THEN WNull ELSE W(v[1])
    ELSE W(v)

RECURSIVE SerializeFrom(_, _, _, _)
SerializeFrom(fields, offset, s, i) ==
    IF i > Len(fields) THEN <<>>
    ELSE LET f == fields[i]
             v == s[f.name]
         IN  IF f.skip /\ v = None
             THEN SerializeFrom(fields, offset, s, i + 1)
             ELSE <<[key |-> offset + (i - 1), val |-> SerializeValue(f, v)]>>
                  \o SerializeFrom(fields, offset, s, i + 1)

SerializeIndexed(fields, offset, s) == SerializeFrom(fields, offset, s, 1)

DeserializeValue(f, w) ==
    IF w.null
    THEN IF f.option THEN Ok(None) ELSE Err("invalid_type")
    ELSE IF f.cap # NoCap /\ w.v.len > f.cap
         THEN Err("invalid_length")
         ELSE Ok(IF f.option THEN Some(w.v) ELSE w.v)

EntriesAt(wire, k) == SelectSeq(wire, LAMBDA e : e.key = k)

DeserializeField(fields, offset, wire, i) ==
    LET f == fields[i]
        es == EntriesAt(wire, offset + (i - 1))
    IN  IF Len(es) = 0
        THEN IF f.skip THEN Ok(None) ELSE Err("missing_field")
        ELSE DeserializeValue(f, es[1].val)

DeserializeIndexed(fields, offset, wire) ==
    LET res(i) == DeserializeField(fields, offset, wire, i)
        bad == {i \in 1..Len(fields) : ~res(i).ok}
        badValue == {i \in bad : res(i).val # "missing_field"}
        first(S) == CHOOSE i \in S : \A j \in S : i <= j
    IN  IF badValue # {} THEN Err(res(first(badValue)).val)
        ELSE IF bad # {} THEN Err("missing_field")
        ELSE Ok([n \in Names(fields) |-> res(IndexOf(fields, n)).val])

Keys(wire) == {wire[i].key : i \in 1..Len(wire)}

ValueAt(wire, k) == EntriesAt(wire, k)[1].val

(***************************************************************************)
(* HmacSecretInput                                                         *)
(***************************************************************************)
SaltEncCap == 80
SaltAuthCap == 32
HmacSecretInputOffset == 1

HmacSecretInputFieldsCap64 ==
    << Field("key_agreement", FALSE, FALSE, NoCap),
       Field("salt_enc", FALSE, FALSE, 64),
       Field("salt_auth", FALSE, FALSE, SaltAuthCap),
       Field("pin_protocol", TRUE, TRUE, NoCap) >>

HmacSecretInputFieldsCap128 ==
    << Field("key_agreement", FALSE, FALSE, NoCap),
       Field("salt_enc", FALSE, FALSE, 128),
       Field("salt_auth", FALSE, FALSE, SaltAuthCap),
       Field("pin_protocol", TRUE, TRUE, NoCap) >>

HmacSecretInputFields ==
    << Field("key_agreement", FALSE, FALSE, NoCap),
       Field("salt_enc", FALSE, FALSE, SaltEncCap),
       Field("salt_auth", FALSE, FALSE, SaltAuthCap),
       Field("pin_protocol", TRUE, TRUE, NoCap) >>

DecodeHmacSecretInput(wire) ==
    DeserializeIndexed(HmacSecretInputFields, HmacSecretInputOffset, wire)

(***************************************************************************)
(* ExtensionsOutput.  The third_party_payment field exists only in a build *)
(* with the feature "third-party-payment".                                 *)
(***************************************************************************)
ExtensionsOutputFields(feat) ==
    {"hmac_secret"} \cup (IF feat THEN {"third_party_payment"} ELSE {})

ExtensionsOutputDefault(feat) == [f \in ExtensionsOutputFields(feat) |-> None]

is_set_hmac_only(feat, e) ==
    IsSome(e["hmac_secret"])

is_set(feat, e) ==
    IF IsSome(e["hmac_secret"]) THEN TRUE
    ELSE IF feat /\ IsSome(e["third_party_payment"]) THEN TRUE
    ELSE FALSE

(***************************************************************************)
(* Request                                                                 *)
(***************************************************************************)
RequestOffset == 1

RequestFieldsSwapped ==
    << Field("rp_id", FALSE, FALSE, NoCap),
       Field("client_data_hash", FALSE, FALSE, NoCap),
       Field("allow_list", TRUE, TRUE, NoCap),
       Field("extensions", TRUE, TRUE, NoCap),
       Field("options", TRUE, TRUE, NoCap),
       Field("pin_protocol", TRUE, TRUE, NoCap),
       Field("pin_auth", TRUE, TRUE, NoCap),
       Field("enterprise_attestation", TRUE, TRUE, NoCap),
       Field("attestation_formats_preference", TRUE, TRUE, NoCap) >>

RequestFields ==
    << Field("rp_id", FALSE, FALSE, NoCap),
       Field("client_data_hash", FALSE, FALSE, NoCap),
       Field("allow_list", TRUE, TRUE, NoCap),
       Field("extensions", TRUE, TRUE, NoCap),
       Field("options", TRUE, TRUE, NoCap),
       Field("pin_auth", TRUE, TRUE, NoCap),
       Field("pin_protocol", TRUE, TRUE, NoCap),
       Field("enterprise_attestation", TRUE, TRUE, NoCap),
       Field("attestation_formats_preference", TRUE, TRUE, NoCap) >>

DecodeRequestOffsetZero(wire) == DeserializeIndexed(RequestFields, 0, wire)

DecodeRequest(wire) == DeserializeIndexed(RequestFields, RequestOffset, wire)

(***************************************************************************)
(* Response and ResponseBuilder                                            *)
(***************************************************************************)
ResponseOffset == 1

ResponseFieldsReordered ==
    << Field("credential", FALSE, FALSE, NoCap),
       Field("auth_data", FALSE, FALSE, NoCap),
       Field("signature", FALSE, FALSE, NoCap),
       Field("number_of_credentials", TRUE, TRUE, NoCap),
       Field("user", TRUE, TRUE, NoCap),
       Field("user_selected", TRUE, TRUE, NoCap),
       Field("large_blob_key", TRUE, TRUE, NoCap),
       Field("unsigned_extension_outputs", TRUE, TRUE, NoCap),
       Field("ep_att", TRUE, TRUE, NoCap),
       Field("att_stmt", TRUE, TRUE, NoCap),
       Field("response_auth", TRUE, TRUE, NoCap) >>

ResponseFields ==
    << Field("credential", FALSE, FALSE, NoCap),
       Field("auth_data", FALSE, FALSE, NoCap),
       Field("signature", FALSE, FALSE, NoCap),
       Field("user", TRUE, TRUE, NoCap),
       Field("number_of_credentials", TRUE, TRUE, NoCap),
       Field("user_selected", TRUE, TRUE, NoCap),
       Field("large_blob_key", TRUE, TRUE, NoCap),
       Field("unsigned_extension_outputs", TRUE, TRUE, NoCap),
       Field("ep_att", TRUE, TRUE, NoCap),
       Field("att_stmt", TRUE, TRUE, NoCap),
       Field("response_auth", TRUE, TRUE, NoCap) >>

EncodeResponseNoSkip(r) ==
    SerializeIndexed([i \in 1..Len(ResponseFields) |->
                         [ResponseFields[i] EXCEPT !.skip = FALSE]],
                     ResponseOffset, r)

EncodeResponse(r) == SerializeIndexed(ResponseFields, ResponseOffset, r)

build_swapped(self) ==
    [credential |-> self.credential,
     auth_data |-> self.signature,
     signature |-> self.auth_data,
     user |-> None,
     number_of_credentials |-> None,
     user_selected |-> None,
     large_blob_key |-> None,
     unsigned_extension_outputs |-> None,
     ep_att |-> None,
     att_stmt |-> None,
     response_auth |-> None]

build_ep_att(self) ==
    [credential |-> self.credential,
     auth_data |-> self.auth_data,
     signature |-> self.signature,
     user |-> None,
     number_of_credentials |-> None,
     user_selected |-> None,
     large_blob_key |-> None,
     unsigned_extension_outputs |-> None,
     ep_att |-> Some(FALSE),
     att_stmt |-> None,
     response_auth |-> None]

build(self) ==
    [credential |-> self.credential,
     auth_data |-> self.auth_data,
     signature |-> self.signature,
     user |-> None,
     number_of_credentials |-> None,
     user_selected |-> None,
     large_blob_key |-> None,
     unsigned_extension_outputs |-> None,
     ep_att |-> None,
     att_stmt |-> None,
     response_auth |-> None]

(***************************************************************************)
(* The other end of the wire (the platform): it writes Requests and reads  *)
(* Responses with the key assignment of the protocol, 1 + the position of  *)
(* the field in the message definition, absent optional fields omitted.    *)
(***************************************************************************)
PeerOffset == 1

PeerRequestFields ==
    << Field("rp_id", FALSE, FALSE, NoCap),
       Field("client_data_hash", FALSE, FALSE, NoCap),
       Field("allow_list", TRUE, TRUE, NoCap),
       Field("extensions", TRUE, TRUE, NoCap),
       Field("options", TRUE, TRUE, NoCap),
       Field("pin_auth", TRUE, TRUE, NoCap),
       Field("pin_protocol", TRUE, TRUE, NoCap),
       Field("enterprise_attestation", TRUE, TRUE, NoCap),
       Field("attestation_formats_preference", TRUE, TRUE, NoCap) >>

PeerResponseFields ==
    << Field("credential", FALSE, FALSE, NoCap),
       Field("auth_data", FALSE, FALSE, NoCap),
       Field("signature", FALSE, FALSE, NoCap),
       Field("user", TRUE, TRUE, NoCap),
       Field("number_of_credentials", TRUE, TRUE, NoCap),
       Field("user_selected", TRUE, TRUE, NoCap),
       Field("large_blob_key", TRUE, TRUE, NoCap),
       Field("unsigned_extension_outputs", TRUE, TRUE, NoCap),
       Field("ep_att", TRUE, TRUE, NoCap),
       Field("att_stmt", TRUE, TRUE, NoCap),
       Field("response_auth", TRUE, TRUE, NoCap) >>

PeerEncodeRequest(rq) == SerializeIndexed(PeerRequestFields, PeerOffset, rq)

PeerDecodeResponse(wire) == DeserializeIndexed(PeerResponseFields, PeerOffset, wire)

(***************************************************************************)
(* Inputs.                                                                 *)
(***************************************************************************)
RpIds == {"example.com", "login.example.org"}

Requests ==
    [rp_id : RpIds,
     client_data_hash : {"cdh"},
     allow_list : Opt({"allow"}),
     extensions : Opt({"ext"}),
     options : Opt({"up"}),
     pin_auth : Opt({"auth"}),
     pin_protocol : Opt({1, 2}),
     enterprise_attestation : Opt({1}),
     attestation_formats_preference : Opt({"packed"})]

\* the Requests with every field present: the values a raw map is made of
FullRequests == {rq \in Requests :
                    \A i \in 3..Len(PeerRequestFields) :
                        IsSome(rq[PeerRequestFields[i].name])}

RequestKeys == 1..Len(PeerRequestFields)

RECURSIVE RawFrom(_, _, _)
RawFrom(S, full, k) ==
    IF k > Len(PeerRequestFields) THEN <<>>
    ELSE LET f == PeerRequestFields[k]
             x == IF f.option THEN full[f.name][1] ELSE full[f.name]
         IN  (IF k \in S THEN <<[key |-> k, val |-> W(x)]>> ELSE <<>>)
             \o RawFrom(S, full, k + 1)

\* the map with exactly the keys S, in ascending order
RawMap(S, full) == RawFrom(S, full, 1)

ResponseBuilders ==
    [credential : {"cred1", "cred2"},
     auth_data : {"authdata"},
     signature : {"sig"}]

OptionalNames ==
    {ResponseFields[i].name : i \in 4..Len(ResponseFields)}

OptionalValues(f) ==
    CASE f = "user" -> {"alice"}
      [] f = "number_of_credentials" -> {1, 3}
      [] f = "user_selected" -> {TRUE, FALSE}
      [] f = "large_blob_key" -> {"lbk"}
      [] f = "unsigned_extension_outputs" -> {"{}"}
      [] f = "ep_att" -> {TRUE, FALSE}
      [] f = "att_stmt" -> {"packed"}
      [] f = "response_auth" -> {"tag"}

HmacOutputLens == {0, 16, 32, 48, 64, 80}
HmacOutputs == {BytesOf(n, b) : n \in HmacOutputLens, b \in Fills}

SaltAuthLens == {32, 33}

(***************************************************************************)
(* State.                                                                  *)
(***************************************************************************)
VARIABLES
    wire,       \* Option: the encoded Request the transport delivered
    wireSrc,    \* Option: the Request the peer encoded (None for a raw map)
    reqResult,  \* Option: the result of decoding wire
    builder,    \* Option: the ResponseBuilder of the command
    response,   \* Option: the Response of the command
    builds,     \* number of build() calls in this behaviour
    mutated,    \* optional fields of response assigned since build()
    respWire,   \* Option: the encoded Response
    peerResp,   \* Option: what the peer decoded from respWire
    sent,       \* the Responses of a result set, each with its encoding
    feature,    \* feature "third-party-payment" of the build
    ext,        \* an ExtensionsOutput
    isSet,      \* Option: result of the last ext.is_set()
    hmWire,     \* Option: an encoded HmacSecretInput
    hmResult,   \* Option: the result of decoding hmWire
    lastOp      \* the operation that produced this state

reqVars == <<wire, wireSrc, reqResult>>
respVars == <<builder, response, builds, mutated, respWire, peerResp>>
extVars == <<feature, ext, isSet>>
hmVars == <<hmWire, hmResult>>
vars == <<wire, wireSrc, reqResult, builder, response, builds, mutated,
          respWire, peerResp, sent, feature, ext, isSet, hmWire, hmResult,
          lastOp>>

InitCommon ==
    /\ wire = None /\ wireSrc = None /\ reqResult = None
    /\ builder = None /\ response = None /\ builds = 0 /\ mutated = {}
    /\ respWire = None /\ peerResp = None
    /\ sent = <<>>
    /\ ext = ExtensionsOutputDefault(feature) /\ isSet = None
    /\ hmWire = None /\ hmResult = None
    /\ lastOp = "init"

Init == feature = FALSE /\ InitCommon

(***************************************************************************)
(* One command: the Request arrives and is decoded, the caller builds the  *)
(* Response, enriches it, and it is encoded and read by the peer.          *)
(***************************************************************************)
Idle == wire = None /\ builder = None /\ response = None /\ sent = <<>>

ReceiveRaw ==
    /\ Idle
    /\ \E S \in SUBSET RequestKeys, full \in FullRequests :
          wire' = Some(RawMap(S, full))
    /\ wireSrc' = None
    /\ lastOp' = "receive"
    /\ UNCHANGED <<reqResult, respVars, sent, extVars, hmVars>>

ReceiveEncoded ==
    /\ Idle
    /\ \E rq \in Requests :
          /\ wire' = Some(PeerEncodeRequest(rq))
          /\ wireSrc' = Some(rq)
    /\ lastOp' = "receive"
    /\ UNCHANGED <<reqResult, respVars, sent, extVars, hmVars>>

DecodeReq ==
    /\ wire # None /\ reqResult = None
    /\ reqResult' = Some(DecodeRequest(wire[1]))
    /\ lastOp' = "decode_request"
    /\ UNCHANGED <<wire, wireSrc, respVars, sent, extVars, hmVars>>

\* the caller's logic ran; the Request and its buffer are gone
NewBuilder ==
    /\ reqResult # None /\ reqResult[1].ok
    /\ \E b \in ResponseBuilders : builder' = Some(b)
    /\ wire' = None /\ wireSrc' = None /\ reqResult' = None
    /\ lastOp' = "new_builder"
    /\ UNCHANGED <<response, builds, mutated, respWire, peerResp, sent,
                   extVars, hmVars>>

BuildKeepsBuilder ==
    /\ builder # None
    /\ builds < 2
    /\ response' = Some(build(builder[1]))
    /\ builds' = builds + 1
    /\ mutated' = {}
    /\ lastOp' = "build"
    /\ UNCHANGED <<builder, reqVars, respWire, peerResp, sent, extVars, hmVars>>

Build ==
    /\ builder # None
    /\ response' = Some(build(builder[1]))
    /\ builder' = None
    /\ builds' = builds + 1
    /\ mutated' = {}
    /\ lastOp' = "build"
    /\ UNCHANGED <<reqVars, respWire, peerResp, sent, extVars, hmVars>>

Mutate ==
    /\ response # None /\ respWire = None /\ sent = <<>>
    /\ \E f \in OptionalNames : \E v \in Opt(OptionalValues(f)) :
          /\ response' = Some([response[1] EXCEPT ![f] = v])
          /\ mutated' = mutated \cup {f}
    /\ lastOp' = "mutate"
    /\ UNCHANGED <<reqVars, builder, builds, respWire, peerResp, sent,
                   extVars, hmVars>>

Encode ==
    /\ response # None /\ respWire = None /\ sent = <<>>
    /\ wire = None
    /\ respWire' = Some(EncodeResponse(response[1]))
    /\ lastOp' = "encode"
    /\ UNCHANGED <<reqVars, builder, response, builds, mutated, peerResp,
                   sent, extVars, hmVars>>

PeerDecode ==
    /\ respWire # None /\ peerResp = None
    /\ peerResp' = Some(PeerDecodeResponse(respWire[1]))
    /\ lastOp' = "peer_decode"
    /\ UNCHANGED <<reqVars, builder, response, builds, mutated, respWire,
                   sent, extVars, hmVars>>

Next ==
    \/ ReceiveRaw
    \/ ReceiveEncoded
    \/ DecodeReq
    \/ NewBuilder
    \/ Build
    \/ Mutate
    \/ Encode
    \/ PeerDecode

Spec == Init /\ [][Next]_vars

(***************************************************************************)
(* A multi-credential result set: one Response per call, each built,       *)
(* given (or not) a number_of_credentials, encoded and discarded.          *)
(***************************************************************************)
SeqStart ==
    /\ builder = None /\ response = None
    /\ Len(sent) < MaxResponses
    /\ \E b \in ResponseBuilders : builder' = Some(b)
    /\ lastOp' = "new_builder"
    /\ UNCHANGED <<reqVars, response, builds, mutated, respWire, peerResp,
                   sent, extVars, hmVars>>

SeqMutate ==
    /\ response # None
    /\ \E v \in Opt(OptionalValues("number_of_credentials")) :
          response' = Some([response[1] EXCEPT !["number_of_credentials"] = v])
    /\ mutated' = mutated \cup {"number_of_credentials"}
    /\ lastOp' = "mutate"
    /\ UNCHANGED <<reqVars, builder, builds, respWire, peerResp, sent,
                   extVars, hmVars>>

SeqEncode ==
    /\ response # None
    /\ sent' = Append(sent, [resp |-> response[1],
                             wire |-> EncodeResponse(response[1])])
    /\ response' = None
    /\ mutated' = {}
    /\ lastOp' = "encode"
    /\ UNCHANGED <<reqVars, builder, builds, respWire, peerResp, extVars,
                   hmVars>>

NextSeq ==
    \/ SeqStart
    \/ Build
    \/ SeqMutate
    \/ SeqEncode

SpecSeq == Init /\ [][NextSeq]_vars

(***************************************************************************)
(* An ExtensionsOutput under construction, in either build.                *)
(***************************************************************************)
InitExt == feature \in BOOLEAN /\ InitCommon

SetHmacSecret ==
    /\ \E v \in Opt(HmacOutputs) : ext' = [ext EXCEPT !["hmac_secret"] = v]
    /\ isSet' = None
    /\ lastOp' = "set_hmac_secret"
    /\ UNCHANGED <<reqVars, respVars, sent, feature, hmVars>>

SetThirdPartyPayment ==
    /\ feature
    /\ \E v \in Opt(BOOLEAN) : ext' = [ext EXCEPT !["third_party_payment"] = v]
    /\ isSet' = None
    /\ lastOp' = "set_third_party_payment"
    /\ UNCHANGED <<reqVars, respVars, sent, feature, hmVars>>

CallIsSet ==
    /\ isSet = None
    /\ isSet' = Some(is_set(feature, ext))
    /\ lastOp' = "is_set"
    /\ UNCHANGED <<reqVars, respVars, sent, feature, ext, hmVars>>

NextExt ==
    \/ SetHmacSecret
    \/ SetThirdPartyPayment
    \/ CallIsSet

SpecExt == InitExt /\ [][NextExt]_vars

(***************************************************************************)
(* An hmac-secret extension input arrives and is decoded.                  *)
(***************************************************************************)
HmacWire(saltLen, fill, authLen, pp) ==
    << [key |-> 1, val |-> W("cose_key")],
       [key |-> 2, val |-> W(BytesOf(saltLen, fill))],
       [key |-> 3, val |-> W(BytesOf(authLen, fill))] >>
    \o (IF pp = None THEN <<>> ELSE <<[key |-> 4, val |-> W(pp[1])]>>)

ReceiveHmac ==
    /\ hmWire = None
    /\ \E saltLen \in 0..MaxSaltLen, fill \in Fills,
          authLen \in SaltAuthLens, pp \in Opt({1, 2}) :
          hmWire' = Some(HmacWire(saltLen, fill, authLen, pp))
    /\ lastOp' = "receive"
    /\ UNCHANGED <<reqVars, respVars, sent, extVars, hmResult>>

DecodeHmac ==
    /\ hmWire # None /\ hmResult = None
    /\ hmResult' = Some(DecodeHmacSecretInput(hmWire[1]))
    /\ lastOp' = "decode_hmac"
    /\ UNCHANGED <<reqVars, respVars, sent, extVars, hmWire>>

NextHmac ==
    \/ ReceiveHmac
    \/ DecodeHmac

SpecHmac == Init /\ [][NextHmac]_vars

(***************************************************************************)
(* Properties.                                                             *)
(***************************************************************************)
\* the optional fields of a Response and the key of every field, as the
\* protocol states them
StatedOptional ==
    {"user", "number_of_credentials", "user_selected", "large_blob_key",
     "unsigned_extension_outputs", "ep_att", "att_stmt", "response_auth"}

StatedRequired == {"credential", "auth_data", "signature"}

StatedKey ==
    [credential |-> 1, auth_data |-> 2, signature |-> 3, user |-> 4,
     number_of_credentials |-> 5, user_selected |-> 6, large_blob_key |-> 7,
     unsigned_extension_outputs |-> 8, ep_att |-> 9, att_stmt |-> 10,
     response_auth |-> 11]

Ascending(w) == \A i \in 1..(Len(w) - 1) : w[i].key < w[i + 1].key

NoNull(w) == \A i \in 1..Len(w) : ~w[i].val.null

\* C1: build() returns a Response whose credential, auth_data and signature
\* are the builder's and whose eight optional fields are all absent.
BuilderCompleteness ==
    [][(builder # None /\ lastOp' = "build") =>
          /\ response' # None
          /\ response'[1].credential = builder[1].credential
          /\ response'[1].auth_data = builder[1].auth_data
          /\ response'[1].signature = builder[1].signature
          /\ \A f \in StatedOptional : response'[1][f] = None]_vars

BuilderCompletenessWitness ==
    /\ lastOp = "build"
    /\ response # None
    /\ response[1].credential = "cred2"

\* C2: an encoded Response has each present field under key 1 + its
\* declaration position with its value, keys strictly ascending, no key and
\* no null for an absent optional field; with no optional field present the
\* map holds exactly the keys 1, 2 and 3.
EncodingKeys ==
    respWire # None =>
        LET w == respWire[1]
            r == response[1]
        IN  /\ Ascending(w)
            /\ NoNull(w)
            /\ Keys(w) = {StatedKey[f] : f \in StatedRequired}
                         \cup {StatedKey[f] : f \in {g \in StatedOptional : r[g] # None}}
            /\ \A f \in StatedRequired : ValueAt(w, StatedKey[f]).v = r[f]
            /\ \A f \in StatedOptional :
                  r[f] # None => ValueAt(w, StatedKey[f]).v = r[f][1]
            /\ (\A f \in StatedOptional : r[f] = None) =>
                  (Len(w) = 3 /\ Keys(w) = {1, 2, 3})

EncodingKeysWitness ==
    /\ respWire # None
    /\ response[1].user = None
    /\ response[1].number_of_credentials # None
    /\ response[1].large_blob_key = None
    /\ response[1].response_auth # None

\* C3: is_set() is true exactly when some field the ExtensionsOutput has is
\* present, in a build with and in a build without third-party-payment,
\* whatever the contents of the field.
IsSetIffSomeFieldPresent ==
    isSet # None =>
        isSet[1] = (\E f \in DOMAIN ext : ext[f] # None)

IsSetWitness ==
    /\ feature
    /\ isSet = Some(TRUE)
    /\ ext["hmac_secret"] = None
    /\ ext["third_party_payment"] = Some(FALSE)

SaltLenOf(w) == ValueAt(w, 2).v.len
SaltAuthLenOf(w) == ValueAt(w, 3).v.len

\* C4, as stated: a salt_enc of any length other than 48 or 64 is rejected.
OnlyLen48Or64Accepted ==
    (hmResult # None /\ SaltLenOf(hmWire[1]) \notin {48, 64}) =>
        ~hmResult[1].ok

\* C4, amended: a salt_enc longer than the 80-byte capacity is rejected, and
\* every length from 0 to 80 is accepted when salt_auth fits its buffer.
SaltEncRejectedIffOverCapacity ==
    hmResult # None =>
        LET w == hmWire[1] IN
        /\ SaltLenOf(w) > 80 => ~hmResult[1].ok
        /\ (SaltLenOf(w) <= 80 /\ SaltAuthLenOf(w) <= 32) => hmResult[1].ok

SaltEncAcceptedWitness ==
    /\ hmResult # None
    /\ hmResult[1].ok
    /\ SaltLenOf(hmWire[1]) = 80

\* C5: a salt_enc of 81 bytes fails with a length error and yields no
\* (truncated) value; one of 48 or 64 bytes decodes to the bytes supplied.
Len81RejectedLen48And64Kept ==
    hmResult # None =>
        LET w == hmWire[1] IN
        /\ SaltLenOf(w) = 81 =>
              (~hmResult[1].ok /\ hmResult[1].val = "invalid_length")
        /\ (SaltLenOf(w) \in {48, 64} /\ SaltAuthLenOf(w) <= 32) =>
              (hmResult[1].ok /\ hmResult[1].val.salt_enc = ValueAt(w, 2).v)

Len81Witness ==
    /\ hmResult # None
    /\ SaltLenOf(hmWire[1]) = 81
    /\ SaltAuthLenOf(hmWire[1]) = 32

RequestDecodeOptionalKeys ==
    (reqResult # None /\ wireSrc = None) =>
        LET w == wire[1]
            res == reqResult[1]
        IN  IF ~({1, 2} \subseteq Keys(w)) THEN ~res.ok
            ELSE /\ res.ok
                 /\ res.val.rp_id = ValueAt(w, 1).v
                 /\ res.val.client_data_hash = ValueAt(w, 2).v
                 /\ \A k \in 3..9 :
                       LET n == PeerRequestFields[k].name IN
                       IF k \in Keys(w)
                       THEN res.val[n] = Some(ValueAt(w, k).v)
                       ELSE res.val[n] = None

RequestDecodeWitness ==
    /\ reqResult # None
    /\ wireSrc = None
    /\ Keys(wire[1]) = {1, 2, 4, 7}
    /\ reqResult[1].ok

\* C8, as stated: ep_att is present if and only if att_stmt is.
EpAttIffAttStmt ==
    response # None =>
        (IsSome(response[1].ep_att) <=> IsSome(response[1].att_stmt))

\* C8, amended: as long as neither ep_att nor att_stmt has been assigned
\* since build(), both are absent.
EpAttAndAttStmtAbsentUntilMutated ==
    (response # None /\ "ep_att" \notin mutated /\ "att_stmt" \notin mutated) =>
        (response[1].ep_att = None /\ response[1].att_stmt = None)

EpAttUntouchedWitness ==
    /\ response # None
    /\ mutated = {"user", "response_auth"}
    /\ response[1].user # None

OptionalAppears(f) ==
    /\ response = None \/ response[1][f] = None
    /\ response' # None /\ response'[1][f] # None

\* C9: a builder is built at most once and build() is always possible on
\* it; once the Response exists the builder does not come back; an optional
\* field becomes present only by a mutation of an existing Response.
BuilderTwoStates ==
    [][/\ builds' <= 1
       /\ builder # None => ENABLED Build
       /\ (builder # None /\ lastOp' = "build") =>
             (builder' = None /\ response' # None)
       /\ response # None => (response' # None /\ builder' = None)
       /\ \A f \in StatedOptional :
             OptionalAppears(f) => (lastOp' = "mutate" /\ response # None)]_vars

BuilderTwoStatesWitness ==
    /\ lastOp = "mutate"
    /\ builds = 1
    /\ builder = None
    /\ response[1].user_selected # None

\* C10: every Response of a result set encodes to a well-formed map, with
\* key 5 carrying number_of_credentials exactly when the field is set,
\* whatever the position of the Response in the set.
SequenceEncodes ==
    \A i \in 1..Len(sent) :
        LET e == sent[i] IN
        /\ Ascending(e.wire)
        /\ NoNull(e.wire)
        /\ {1, 2, 3} \subseteq Keys(e.wire)
        /\ 5 \in Keys(e.wire) <=> e.resp.number_of_credentials # None
        /\ 5 \in Keys(e.wire) =>
              ValueAt(e.wire, 5).v = e.resp.number_of_credentials[1]

SequenceWitness ==
    /\ Len(sent) = 3
    /\ sent[1].resp.number_of_credentials = Some(3)
    /\ sent[2].resp.number_of_credentials = None
    /\ sent[3].resp.number_of_credentials # None
====
